---- MODULE Spec2Model ----
(***************************************************************************)
(* ap-move-lights-to-data: a light-frame directory is moved from the       *)
(* source tree to the data tree when its calibration frames (dark, flat    *)
(* and, where needed, bias) are co-located with its lights.                *)
(*                                                                         *)
(* Two parts:                                                              *)
(*   - the completeness evaluator (matching.check_calibration_status and   *)
(*     the matchers it uses), a pure function of a directory's frame list; *)
(*   - the directory orchestrator (move_lights_to_data.py): the scan of    *)
(*     the source tree, the per-directory decision, the move, the cleanup. *)
(* The evaluator, the matchers and the configuration follow the design     *)
(* document (sections 3, 4 and 7); the orchestrator follows                *)
(* move_lights_to_data.py.  Printing (debug output, the summary) changes   *)
(* no state and is left out.                                               *)
(***************************************************************************)
EXTENDS Integers, Sequences, FiniteSets, TLC

VARIABLES
    fs,          \* the filesystem: existing directory path -> its listing (a sequence of files)
    dry_run,     \* the --dry-run flag of the run
    pc,          \* position in process_light_directories
    image_dirs,  \* the sorted list find_light_directories returned
    idx,         \* index in image_dirs of the directory the loop handles next
    results,     \* the six counters of process_light_directories
    log,         \* per directory handled: what was evaluated and what was done
    exc,         \* the exception that left process_light_directories, or "none"
    frames_in,   \* evaluator run: the frame list handed to check_calibration_status
    status_out   \* evaluator run: the status returned, NoStatus before the call

vars == <<fs, dry_run, pc, image_dirs, idx, results, log, exc, frames_in, status_out>>

(***************************************************************************)
(* Bounds                                                                  *)
(***************************************************************************)
\* longest frame list handed to the evaluator in the evaluator runs
MaxFrames == 5
\* most sub-directories the source tree holds at the start of a run
MaxDirs == 2

(***************************************************************************)
(* Configuration (config.py)                                               *)
(***************************************************************************)
TYPE_LIGHT == "LIGHT"
TYPE_DARK == "DARK"
TYPE_FLAT == "FLAT"
TYPE_BIAS == "BIAS"
\* the fixed settemp tolerance shared by dark and bias matching (the design
\* fixes that there is one; the value here is one degree)
SETTEMP_TOLERANCE == 1

Abs(x) == IF x < 0 THEN -x ELSE x

(***************************************************************************)
(* Frame descriptors.  missing = the keywords of the header that the file  *)
(* lacks (the field then holds the empty sentinel); a light that lacks a   *)
(* keyword of LIGHT_REQUIRED_KEYWORDS is malformed.                        *)
(***************************************************************************)
LIGHT_REQUIRED_KEYWORDS ==
    {"camera", "settemp", "gain", "offset", "readoutmode", "exposure_seconds",
     "filter", "date"}

Frame(n, t, cam, temp, g, off, ro, exp, flt, lacks) ==
    [file_path |-> n, type |-> t, camera |-> cam, settemp |-> temp, gain |-> g,
     offset |-> off, readoutmode |-> ro, exposure_seconds |-> exp, filter |-> flt,
     missing |-> lacks]

L1 == Frame("l1", TYPE_LIGHT, "C1", -10, 100, 10, 0, 300, "Ha", {})
L2 == Frame("l2", TYPE_LIGHT, "C1", -8, 100, 10, 0, 600, "Ha", {})
LBad == Frame("lbad", TYPE_LIGHT, "C1", -10, 100, 10, 0, 300, "", {"filter"})
D1 == Frame("d1", TYPE_DARK, "C1", -9, 100, 10, 0, 300, "", {"filter"})
D2 == Frame("d2", TYPE_DARK, "C2", -10, 100, 10, 0, 300, "", {"filter"})
D3 == Frame("d3", TYPE_DARK, "C1", -10, 200, 10, 0, 300, "", {"filter"})
F1 == Frame("f1", TYPE_FLAT, "C1", -20, 100, 10, 0, 2, "Ha", {})
F2 == Frame("f2", TYPE_FLAT, "C1", -10, 100, 10, 0, 2, "OIII", {})
B1 == Frame("b1", TYPE_BIAS, "C1", -7, 100, 10, 0, 0, "", {"filter"})
B2 == Frame("b2", TYPE_BIAS, "C1", -9, 100, 10, 1, 0, "", {"filter"})
X1 == Frame("x1", "SNAPSHOT", "C1", -10, 100, 10, 0, 300, "Ha", {})

FramePool == {L1, L2, LBad, D1, D2, D3, F1, F2, B1, B2, X1}

(***************************************************************************)
(* Frame Classifier                                                        *)
(***************************************************************************)
\* get_frames_by_type: the frames of one declared type, in listing order;
\* frames of an unrecognized type belong to no group.
get_frames_by_type(frames, t) == SelectSeq(frames, LAMBDA f : f.type = t)

\* the light set: malformed lights are excluded from consideration
IsValidLight(f) == f.type = TYPE_LIGHT /\ f.missing \cap LIGHT_REQUIRED_KEYWORDS = {}
ValidLights(frames) == SelectSeq(frames, IsValidLight)

(***************************************************************************)
(* Calibration Matcher                                                     *)
(***************************************************************************)
SameSensor(light, c) ==
    /\ c.camera = light.camera
    /\ c.gain = light.gain
    /\ c.offset = light.offset
    /\ c.readoutmode = light.readoutmode

WithinTolerance(light, c) == Abs(c.settemp - light.settemp) <= SETTEMP_TOLERANCE

\* a dark that differs from the light in exposure only
DarkRelaxedMatch(light, d) == SameSensor(light, d) /\ WithinTolerance(light, d)
DarkExactMatch(light, d) ==
    DarkRelaxedMatch(light, d) /\ d.exposure_seconds = light.exposure_seconds

ExactDarks(light, darks) == SelectSeq(darks, LAMBDA d : DarkExactMatch(light, d))
RelaxedDarks(light, darks) == SelectSeq(darks, LAMBDA d : DarkRelaxedMatch(light, d))

\* the exact matches, or, when there is none, the bias-correctable candidates
find_matching_darks(light, darks) ==
    IF ExactDarks(light, darks) # <<>> THEN ExactDarks(light, darks)
    ELSE RelaxedDarks(light, darks)

find_matching_flats(light, flats) ==
    SelectSeq(flats, LAMBDA f : SameSensor(light, f) /\ f.filter = light.filter)

find_matching_bias(light, bias_frames) ==
    SelectSeq(bias_frames, LAMBDA b : SameSensor(light, b) /\ WithinTolerance(light, b))

\* a light whose darks all differ from it in exposure needs a bias
RequiresBias(light, darks) ==
    ExactDarks(light, darks) = <<>> /\ RelaxedDarks(light, darks) # <<>>

(***************************************************************************)
(* Completeness Evaluator                                                  *)
(***************************************************************************)
\* Reason strings, as the sequence of their words.
REASON_NO_LIGHTS == <<"No", "light", "frames", "found">>
REASON_NO_DARKS == <<"No", "matching", "dark", "frames">>
REASON_NO_FLATS == <<"No", "matching", "flat", "frames">>
REASON_NO_BIAS == <<"No", "matching", "bias", "frames">>
REASON_NONE == <<>>

NoStatus == [raised |-> FALSE, none |-> TRUE]

\* index of the first light no dark matches under either rule, 0 when every light has one
RECURSIVE FirstDarkMissing(_, _, _)
FirstDarkMissing(lights, darks, i) ==
    IF i > Len(lights) THEN 0
    ELSE IF find_matching_darks(lights[i], darks) = <<>> THEN i
    ELSE FirstDarkMissing(lights, darks, i + 1)

\* the lights the dark pass looked at before it stopped
DarkScanned(lights, darks) ==
    IF FirstDarkMissing(lights, darks, 1) = 0 THEN lights
    ELSE SubSeq(lights, 1, FirstDarkMissing(lights, darks, 1) - 1)

NeedsBias(lights, darks) ==
    \E i \in 1..Len(DarkScanned(lights, darks)) :
        RequiresBias(DarkScanned(lights, darks)[i], darks)

FlatMissing(lights, flats) ==
    \E i \in 1..Len(lights) : find_matching_flats(lights[i], flats) = <<>>

\* variant: once a bias is needed, every light is checked for one
BiasMissing_EveryLight(lights, darks, bias_frames) ==
    /\ \E i \in 1..Len(lights) : RequiresBias(lights[i], darks)
    /\ \E i \in 1..Len(lights) : find_matching_bias(lights[i], bias_frames) = <<>>

\* only the lights that need a bias are checked for one
BiasMissing(lights, darks, bias_frames) ==
    \E i \in 1..Len(lights) :
        /\ RequiresBias(lights[i], darks)
        /\ find_matching_bias(lights[i], bias_frames) = <<>>

\* variant: the check for an empty light set is left out
Verdict_WithoutLightCheck(lights, darks, flats, bias_frames) ==
    IF FirstDarkMissing(lights, darks, 1) # 0
        THEN [is_complete |-> FALSE, reason |-> REASON_NO_DARKS]
    ELSE IF FlatMissing(lights, flats)
        THEN [is_complete |-> FALSE, reason |-> REASON_NO_FLATS]
    ELSE IF BiasMissing(lights, darks, bias_frames)
        THEN [is_complete |-> FALSE, reason |-> REASON_NO_BIAS]
    ELSE [is_complete |-> TRUE, reason |-> REASON_NONE]

Verdict(lights, darks, flats, bias_frames) ==
    IF lights = <<>> THEN [is_complete |-> FALSE, reason |-> REASON_NO_LIGHTS]
    ELSE IF FirstDarkMissing(lights, darks, 1) # 0
        THEN [is_complete |-> FALSE, reason |-> REASON_NO_DARKS]
    ELSE IF FlatMissing(lights, flats)
        THEN [is_complete |-> FALSE, reason |-> REASON_NO_FLATS]
    ELSE IF BiasMissing(lights, darks, bias_frames)
        THEN [is_complete |-> FALSE, reason |-> REASON_NO_BIAS]
    ELSE [is_complete |-> TRUE, reason |-> REASON_NONE]

StatusOf(lights, darks, flats, bias_frames) ==
    LET verdict == Verdict(lights, darks, flats, bias_frames)
    IN
    [raised |-> FALSE,
     has_lights |-> lights # <<>>,
     light_count |-> Len(lights),
     dark_count |-> Len(darks),
     flat_count |-> Len(flats),
     bias_count |-> Len(bias_frames),
     needs_bias |-> lights # <<>> /\ NeedsBias(lights, darks),
     is_complete |-> verdict.is_complete,
     reason |-> verdict.reason]

check_calibration_status(frames) ==
    StatusOf(ValidLights(frames),
             get_frames_by_type(frames, TYPE_DARK),
             get_frames_by_type(frames, TYPE_FLAT),
             get_frames_by_type(frames, TYPE_BIAS))

(***************************************************************************)
(* Evaluator runs: one frame list, one call of check_calibration_status.   *)
(***************************************************************************)
IdleRun ==
    /\ fs = <<>>
    /\ dry_run = FALSE
    /\ pc = "idle"
    /\ image_dirs = <<>>
    /\ idx = 0
    /\ results = <<>>
    /\ log = <<>>
    /\ exc = "none"

InitEval ==
    /\ IdleRun
    /\ frames_in = <<>>
    /\ status_out = NoStatus

\* the header source supplies the descriptor of one more file of the directory
ScanFrame ==
    /\ pc = "idle"
    /\ status_out = NoStatus
    /\ Len(frames_in) < MaxFrames
    /\ \E f \in FramePool \ {frames_in[i] : i \in 1..Len(frames_in)} :
           frames_in' = Append(frames_in, f)
    /\ UNCHANGED <<fs, dry_run, pc, image_dirs, idx, results, log, exc, status_out>>

Evaluate ==
    /\ pc = "idle"
    /\ status_out = NoStatus
    /\ status_out' = check_calibration_status(frames_in)
    /\ UNCHANGED <<fs, dry_run, pc, image_dirs, idx, results, log, exc, frames_in>>

NextEval == ScanFrame \/ Evaluate

SpecEval == InitEval /\ [][NextEval]_vars

Evaluated == status_out # NoStatus

(***************************************************************************)
(* The filesystem.  A path is the sequence of its names; fs maps every     *)
(* existing directory to its listing, a sequence of files.  A file has a   *)
(* name, an extension and the header the header source reads from it; the  *)
(* header of a file that is not readable cannot be read at all.            *)
(***************************************************************************)
SourceRoot == <<"blink">>
DestRoot == <<"data">>

Img(f, e) == [name |-> f.file_path, ext |-> e, frame |-> f, readable |-> TRUE]
Corrupt(f, e) == [name |-> f.file_path, ext |-> e, frame |-> f, readable |-> FALSE]
NotesFile == [name |-> "notes", ext |-> "txt", frame |-> X1, readable |-> TRUE]

K_EMPTY == <<>>
K_NOTES == <<NotesFile>>
K_COMPLETE == <<Img(L1, "fits"), Img(D1, "fits"), Img(F1, "fits")>>
K_NODARK == <<Img(L1, "FIT"), Img(F1, "fit"), NotesFile>>
K_NOFLAT == <<Img(L1, "fits"), Img(D1, "fits")>>
K_NOBIAS == <<Img(L2, "xisf"), Img(D1, "xisf"), Img(F1, "xisf")>>
K_BIASOK == <<Img(L2, "fits"), Img(D1, "fits"), Img(D2, "fits"), Img(F1, "fits"), Img(B1, "fits")>>
K_CALONLY == <<Img(D1, "fits"), Img(F1, "FITS")>>
K_CORRUPT == <<Img(L1, "fits"), Corrupt(D1, "fits"), Img(F1, "fits")>>

Listing ==
    {K_EMPTY, K_NOTES, K_COMPLETE, K_NODARK, K_NOFLAT, K_NOBIAS, K_BIASOK, K_CALONLY,
     K_CORRUPT}
RootListing == {K_EMPTY, K_COMPLETE, K_NODARK}

\* str.lower(), on the words and extensions that occur
Lower(w) ==
    CASE w = "No" -> "no"
      [] w = "FIT" -> "fit"
      [] w = "FITS" -> "fits"
      [] w = "XISF" -> "xisf"
      [] OTHER -> w

Last(p) == p[Len(p)]
Parent(p) == SubSeq(p, 1, Len(p) - 1)
IsPrefix(p, q) == Len(p) <= Len(q) /\ SubSeq(q, 1, Len(p)) = p
IsProperPrefix(p, q) == IsPrefix(p, q) /\ p # q
Suffix(p, q) == SubSeq(q, Len(p) + 1, Len(q))

\* the order of sorted() on the path strings: name by name, a prefix first
NameRank(n) ==
    CASE n = "a" -> 1 [] n = "b" -> 2 [] n = "blink" -> 3 [] n = "c" -> 4
      [] n = "d" -> 5 [] n = "data" -> 6 [] OTHER -> 7

RECURSIVE PathLess(_, _)
PathLess(p, q) ==
    IF p = <<>> THEN q # <<>>
    ELSE IF q = <<>> THEN FALSE
    ELSE IF p[1] # q[1] THEN NameRank(p[1]) < NameRank(q[1])
    ELSE PathLess(Tail(p), Tail(q))

RECURSIVE Sorted(_)
Sorted(S) ==
    IF S = {} THEN <<>>
    ELSE LET least == CHOOSE p \in S : \A q \in S \ {p} : PathLess(p, q)
         IN  <<least>> \o Sorted(S \ {least})

(***************************************************************************)
(* find_light_directories                                                  *)
(***************************************************************************)
IMAGE_EXTENSIONS == {"fits", "fit", "xisf"}

has_images(files) == \E i \in 1..Len(files) : Lower(files[i].ext) \in IMAGE_EXTENSIONS

\* os.walk(source_path): every directory of the tree under the source root
Walk(fsys) == {p \in DOMAIN fsys : IsPrefix(SourceRoot, p)}

find_light_directories(fsys) == Sorted({root \in Walk(fsys) : has_images(fsys[root])})

(***************************************************************************)
(* get_target_from_path                                                    *)
(***************************************************************************)
get_target_from_path(light_dir) ==
    IF IsPrefix(SourceRoot, light_dir) THEN Suffix(SourceRoot, light_dir)
    ELSE <<Last(light_dir)>>

(***************************************************************************)
(* move_directory.  io is what the filesystem does to the call:            *)
(* "ok", "mkdir_fails" (creating the parent fails) or "move_fails" (the    *)
(* rename fails).  A move that fails half-way through a copy across        *)
(* devices is outside the design's scope and is not modelled.              *)
(***************************************************************************)
IoOutcome == {"ok", "mkdir_fails", "move_fails"}

\* dest_path.parent.mkdir(parents=True, exist_ok=True)
MkdirParents(fsys, dir) ==
    [p \in DOMAIN fsys \cup {SubSeq(dir, 1, n) : n \in 1..Len(dir)} |->
        IF p \in DOMAIN fsys THEN fsys[p] ELSE <<>>]

\* os.rename of a directory tree
Rename(fsys, from, to) ==
    LET moved == {p \in DOMAIN fsys : IsPrefix(from, p)}
        kept == DOMAIN fsys \ moved
    IN  [p \in kept \cup {to \o Suffix(from, q) : q \in moved} |->
            IF p \in kept THEN fsys[p] ELSE fsys[from \o Suffix(to, p)]]

\* shutil.move: into dest when dest is an existing directory
RealDest(fsys, source, dest) ==
    IF dest \in DOMAIN fsys THEN Append(dest, Last(source)) ELSE dest

ShutilMoveRaises(fsys, source, dest, io) ==
    \/ io = "move_fails"
    \/ source \notin DOMAIN fsys
    \/ RealDest(fsys, source, dest) \in DOMAIN fsys
    \/ IsPrefix(source, dest)

\* variant: the try/except is left out and a failure leaves the function
move_directory_Uncaught(fsys, source, dest, dry, io) ==
    IF dry THEN [success |-> TRUE, raised |-> FALSE, fs |-> fsys]
    ELSE IF io = "mkdir_fails" THEN [success |-> FALSE, raised |-> TRUE, fs |-> fsys]
    ELSE LET made == MkdirParents(fsys, Parent(dest))
         IN  IF ShutilMoveRaises(made, source, dest, io)
             THEN [success |-> FALSE, raised |-> TRUE, fs |-> made]
             ELSE [success |-> TRUE, raised |-> FALSE,
                   fs |-> Rename(made, source, RealDest(made, source, dest))]

move_directory(fsys, source, dest, dry, io) ==
    IF dry THEN [success |-> TRUE, raised |-> FALSE, fs |-> fsys]
    ELSE IF io = "mkdir_fails" THEN [success |-> FALSE, raised |-> FALSE, fs |-> fsys]
    ELSE LET made == MkdirParents(fsys, Parent(dest))
         IN  IF ShutilMoveRaises(made, source, dest, io)
             THEN [success |-> FALSE, raised |-> FALSE, fs |-> made]
             ELSE [success |-> TRUE, raised |-> FALSE,
                   fs |-> Rename(made, source, RealDest(made, source, dest))]

(***************************************************************************)
(* process_light_directories                                               *)
(***************************************************************************)
ZeroResults ==
    [moved |-> 0, skipped_no_lights |-> 0, skipped_no_darks |-> 0,
     skipped_no_flats |-> 0, skipped_no_bias |-> 0, errors |-> 0]

Counters == DOMAIN ZeroResults

Bump(r, counter) == IF counter \in Counters THEN [r EXCEPT ![counter] = @ + 1] ELSE r

\* the image files of a directory; none when the directory is not there
DirImages(fsys, dir) ==
    IF dir \notin DOMAIN fsys THEN <<>>
    ELSE SelectSeq(fsys[dir], LAMBDA f : Lower(f.ext) \in IMAGE_EXTENSIONS)

\* the frame descriptors the header source reads in a directory
DirFrames(fsys, dir) ==
    [i \in 1..Len(DirImages(fsys, dir)) |-> DirImages(fsys, dir)[i].frame]

\* the exceptional condition: the header of an image file cannot be read
HeaderSourceRaises(fsys, dir) ==
    \E i \in 1..Len(DirImages(fsys, dir)) : ~DirImages(fsys, dir)[i].readable

\* check_calibration_status(image_dir): the status, or the error propagated
StatusOfDir(fsys, dir) ==
    IF HeaderSourceRaises(fsys, dir) THEN [raised |-> TRUE]
    ELSE check_calibration_status(DirFrames(fsys, dir))

\* "dark" in reason.lower()
Cites(word, reason) == \E i \in 1..Len(reason) : Lower(reason[i]) = word

\* variant: a missing bias is counted with the missing flats
SkipCounter_BiasAsFlats(reason) ==
    IF Cites("dark", reason) THEN "skipped_no_darks"
    ELSE IF Cites("flat", reason) THEN "skipped_no_flats"
    ELSE IF Cites("bias", reason) THEN "skipped_no_flats"
    ELSE "none"

\* variant: the branch for a missing bias is left out
SkipCounter_WithoutBias(reason) ==
    IF Cites("dark", reason) THEN "skipped_no_darks"
    ELSE IF Cites("flat", reason) THEN "skipped_no_flats"
    ELSE "none"

\* the counter a skipped incomplete directory is added to
SkipCounter(reason) ==
    IF Cites("dark", reason) THEN "skipped_no_darks"
    ELSE IF Cites("flat", reason) THEN "skipped_no_flats"
    ELSE IF Cites("bias", reason) THEN "skipped_no_bias"
    ELSE "none"

\* variant: a directory that needs a bias is held back
Decide_HoldingBackBias(status) ==
    IF ~status.has_lights THEN "skip_no_lights"
    ELSE IF ~status.is_complete \/ status.needs_bias THEN "skip_incomplete"
    ELSE "move"

\* what the loop body does with a status
Decide(status) ==
    IF ~status.has_lights THEN "skip_no_lights"
    ELSE IF ~status.is_complete THEN "skip_incomplete"
    ELSE "move"

\* ap_common.delete_empty_directories(source_path): the directories under
\* the source root that hold no file, themselves or below, are removed
delete_empty_directories(fsys) ==
    LET holds(d) == \E p \in DOMAIN fsys : IsPrefix(d, p) /\ fsys[p] # <<>>
        gone == {d \in DOMAIN fsys : IsProperPrefix(SourceRoot, d) /\ ~holds(d)}
    IN  [p \in DOMAIN fsys \ gone |-> fsys[p]]

\* variant: the cleanup does not look at dry_run
Cleanup_IgnoringDryRun(fsys, dry, r) ==
    IF r.moved > 0 THEN delete_empty_directories(fsys) ELSE fsys

\* the end of the function: the cleanup, then the return
Cleanup(fsys, dry, r) ==
    IF ~dry /\ r.moved > 0 THEN delete_empty_directories(fsys) ELSE fsys

(***************************************************************************)
(* The run.  Before it, the trees are populated; then one call of          *)
(* process_light_directories, one action per loop iteration.               *)
(***************************************************************************)
SourceDirs ==
    {SourceRoot \o <<"a">>, SourceRoot \o <<"a", "b">>,
     SourceRoot \o <<"c">>, SourceRoot \o <<"c", "d">>}
DestDirs == {DestRoot, DestRoot \o <<"a">>, DestRoot \o <<"a", "a">>}

SubDirCount(fsys) == Cardinality({p \in DOMAIN fsys : IsProperPrefix(SourceRoot, p)})

CurrentDir == image_dirs[idx]
CurrentStatus == StatusOfDir(fs, CurrentDir)
InLoop == pc = "loop" /\ idx <= Len(image_dirs)

Entry(dir, status, done) == [dir |-> dir, status |-> status, done |-> done]

Init ==
    /\ fs = [p \in {SourceRoot} |-> K_EMPTY]
    /\ dry_run = FALSE
    /\ pc = "setup"
    /\ image_dirs = <<>>
    /\ idx = 1
    /\ results = ZeroResults
    /\ log = <<>>
    /\ exc = "none"
    /\ frames_in = <<>>
    /\ status_out = NoStatus

\* the acquisition session leaves a directory in the source tree
PopulateSource ==
    /\ pc = "setup"
    /\ \E dir \in SourceDirs \ DOMAIN fs, files \in Listing :
        /\ Parent(dir) \in DOMAIN fs
        /\ SubDirCount(fs) < MaxDirs
        /\ fs' = [p \in DOMAIN fs \cup {dir} |-> IF p = dir THEN files ELSE fs[p]]
    /\ UNCHANGED <<dry_run, pc, image_dirs, idx, results, log, exc, frames_in, status_out>>

\* image files are saved directly in the source root
PopulateRoot ==
    /\ pc = "setup"
    /\ fs[SourceRoot] = K_EMPTY
    /\ \E files \in RootListing \ {K_EMPTY} : fs' = [fs EXCEPT ![SourceRoot] = files]
    /\ UNCHANGED <<dry_run, pc, image_dirs, idx, results, log, exc, frames_in, status_out>>

\* an earlier run left a directory in the data tree
PopulateDest ==
    /\ pc = "setup"
    /\ \E dir \in DestDirs \ DOMAIN fs :
        /\ dir = DestRoot \/ Parent(dir) \in DOMAIN fs
        /\ fs' = [p \in DOMAIN fs \cup {dir} |-> IF p = dir THEN <<>> ELSE fs[p]]
    /\ UNCHANGED <<dry_run, pc, image_dirs, idx, results, log, exc, frames_in, status_out>>

\* process_light_directories up to the loop
Start ==
    /\ pc = "setup"
    /\ dry_run' \in BOOLEAN
    /\ image_dirs' = find_light_directories(fs)
    /\ pc' = IF find_light_directories(fs) = <<>> THEN "done" ELSE "loop"
    /\ UNCHANGED <<fs, idx, results, log, exc, frames_in, status_out>>

\* check_calibration_status raises: nothing in the loop catches it
CheckRaises ==
    /\ InLoop
    /\ LET status == CurrentStatus
       IN  /\ status.raised
           /\ log' = Append(log, Entry(CurrentDir, status, "raised"))
    /\ exc' = "check"
    /\ pc' = "crashed"
    /\ UNCHANGED <<fs, dry_run, image_dirs, idx, results, frames_in, status_out>>

SkipNoLights ==
    /\ InLoop
    /\ LET status == CurrentStatus
       IN  /\ ~status.raised
           /\ Decide(status) = "skip_no_lights"
           /\ results' = Bump(results, "skipped_no_lights")
           /\ log' = Append(log, Entry(CurrentDir, status, "skipped_no_lights"))
    /\ idx' = idx + 1
    /\ UNCHANGED <<fs, dry_run, pc, image_dirs, exc, frames_in, status_out>>

SkipIncomplete ==
    /\ InLoop
    /\ LET status == CurrentStatus
       IN  /\ ~status.raised
           /\ Decide(status) = "skip_incomplete"
           /\ results' = Bump(results, SkipCounter(status.reason))
           /\ log' = Append(log, Entry(CurrentDir, status, SkipCounter(status.reason)))
    /\ idx' = idx + 1
    /\ UNCHANGED <<fs, dry_run, pc, image_dirs, exc, frames_in, status_out>>

MoveDirectory ==
    /\ InLoop
    /\ LET status == CurrentStatus
       IN  /\ ~status.raised
           /\ Decide(status) = "move"
           /\ \E io \in IoOutcome :
               LET dest_full == DestRoot \o get_target_from_path(CurrentDir)
                   out == move_directory(fs, CurrentDir, dest_full, dry_run, io)
               IN  /\ fs' = out.fs
                   /\ IF out.raised
                      THEN /\ exc' = "move"
                           /\ pc' = "crashed"
                           /\ log' = Append(log, Entry(CurrentDir, status, "move_raised"))
                           /\ UNCHANGED <<results, idx>>
                      ELSE /\ results' = Bump(results, IF out.success THEN "moved" ELSE "errors")
                           /\ log' = Append(log, Entry(CurrentDir, status,
                                                       IF out.success THEN "moved" ELSE "errors"))
                           /\ idx' = idx + 1
                           /\ UNCHANGED <<exc, pc>>
    /\ UNCHANGED <<dry_run, image_dirs, frames_in, status_out>>

\* after the last directory: the cleanup and the return
Finish ==
    /\ pc = "loop"
    /\ idx > Len(image_dirs)
    /\ fs' = Cleanup(fs, dry_run, results)
    /\ pc' = "done"
    /\ UNCHANGED <<dry_run, image_dirs, idx, results, log, exc, frames_in, status_out>>

Next ==
    \/ PopulateSource
    \/ PopulateRoot
    \/ PopulateDest
    \/ Start
    \/ CheckRaises
    \/ SkipNoLights
    \/ SkipIncomplete
    \/ MoveDirectory
    \/ Finish

Spec == Init /\ [][Next]_vars

(***************************************************************************)
(* Properties of the evaluator (checked under SpecEval)                    *)
(***************************************************************************)
DarksIn(frames) == get_frames_by_type(frames, TYPE_DARK)
FlatsIn(frames) == get_frames_by_type(frames, TYPE_FLAT)
BiasIn(frames) == get_frames_by_type(frames, TYPE_BIAS)
LightsIn(frames) == get_frames_by_type(frames, TYPE_LIGHT)
SeqSet(q) == {q[i] : i \in 1..Len(q)}

\* C2, as stated: is_complete is true if and only if every light frame of the
\* directory has a matching dark, a matching flat and, if needs_bias is true,
\* a matching bias.
C2_CompleteIffEveryLightCovered ==
    Evaluated =>
        (status_out.is_complete <=>
            \A l \in SeqSet(LightsIn(frames_in)) :
                /\ find_matching_darks(l, DarksIn(frames_in)) # <<>>
                /\ find_matching_flats(l, FlatsIn(frames_in)) # <<>>
                /\ status_out.needs_bias =>
                       find_matching_bias(l, BiasIn(frames_in)) # <<>>)

\* C2, amended: is_complete is true if and only if the directory has a
\* well-formed light frame and every well-formed light frame has a matching
\* dark, a matching flat and, when its darks all differ from it in exposure,
\* a matching bias.
C2_CompleteIffLightsPresentAndCovered ==
    Evaluated =>
        (status_out.is_complete <=>
            /\ ValidLights(frames_in) # <<>>
            /\ \A l \in SeqSet(ValidLights(frames_in)) :
                /\ find_matching_darks(l, DarksIn(frames_in)) # <<>>
                /\ find_matching_flats(l, FlatsIn(frames_in)) # <<>>
                /\ RequiresBias(l, DarksIn(frames_in)) =>
                       find_matching_bias(l, BiasIn(frames_in)) # <<>>)

\* a complete directory that needs a bias and has a light no bias matches
C2_Witness ==
    /\ Evaluated
    /\ status_out.is_complete
    /\ status_out.needs_bias
    /\ \E l \in SeqSet(ValidLights(frames_in)) :
           find_matching_bias(l, BiasIn(frames_in)) = <<>>

\* C5: a directory without a frame of type LIGHT yields has_lights false and
\* is_complete false, with the reason "No light frames found", whatever
\* darks, flats and bias frames it holds.
C5_NoLightsNeverComplete ==
    (Evaluated /\ LightsIn(frames_in) = <<>>) =>
        /\ ~status_out.has_lights
        /\ ~status_out.is_complete
        /\ status_out.reason = REASON_NO_LIGHTS

\* a lightless directory that holds a dark, a flat and a bias
C5_Witness ==
    /\ Evaluated
    /\ LightsIn(frames_in) = <<>>
    /\ DarksIn(frames_in) # <<>>
    /\ FlatsIn(frames_in) # <<>>
    /\ BiasIn(frames_in) # <<>>
    /\ ~status_out.has_lights

(***************************************************************************)
(* Properties of the run (checked under Spec)                              *)
(***************************************************************************)
Handled == 1..Len(log)
MoveInvoked(e) == e.done \in {"moved", "errors", "move_raised"}
\* this step handles a directory
Handles == Len(log') = Len(log) + 1
Handling == log'[Len(log')]

\* C1, as stated: move_directory is invoked on a directory only if its status
\* has has_lights and is_complete true; a directory whose status is lightless
\* or incomplete is never moved and is left at its source path.
C1_OnlyCompleteDirectoriesLeaveSource ==
    \A i \in Handled :
        /\ MoveInvoked(log[i]) =>
               /\ ~log[i].status.raised
               /\ log[i].status.has_lights
               /\ log[i].status.is_complete
        /\ (~log[i].status.raised /\ ~(log[i].status.has_lights /\ log[i].status.is_complete)) =>
               /\ ~MoveInvoked(log[i])
               /\ log[i].dir \in DOMAIN fs

\* C3: a move that fails is counted in errors and is not fatal: no exception
\* leaves move_directory, and the loop goes on with the next directory.
C3_MoveFailureCountedNotFatal ==
    [][(Handles /\ Handling.done \in {"errors", "move_raised"}) =>
           /\ results' = [results EXCEPT !.errors = @ + 1]
           /\ exc' = "none"
           /\ pc' = "loop"
           /\ idx' = idx + 1
           /\ image_dirs' = image_dirs]_vars

\* a real run that returned, where a move failed and a later directory was moved
C3_Witness ==
    /\ pc = "done"
    /\ ~dry_run
    /\ \E i, j \in Handled : i < j /\ log[i].done = "errors" /\ log[j].done = "moved"

\* C4, as stated: when check_calibration_status raises for a directory, the
\* directory is skipped as "no lights" and the batch does not crash.
C4_RaiseTreatedAsNoLights ==
    \A i \in Handled :
        log[i].status.raised =>
            /\ log[i].done = "skipped_no_lights"
            /\ exc = "none"
            /\ pc # "crashed"

\* C6: with dry_run, no step of the run changes the filesystem.
C6_DryRunChangesNothing == [][dry_run => fs' = fs]_vars

\* a dry run that returned, counted a move, and left an empty directory in
\* the source tree that the cleanup would have removed
C6_Witness ==
    /\ pc = "done"
    /\ dry_run
    /\ results.moved > 0
    /\ delete_empty_directories(fs) # fs

\* C7, as stated: no directory of the list find_light_directories returns is
\* a proper ancestor of another one, and the list has no duplicates.
C7_OnlyLeafDirectories ==
    \A i, j \in 1..Len(image_dirs) :
        i # j => /\ image_dirs[i] # image_dirs[j]
                 /\ ~IsProperPrefix(image_dirs[i], image_dirs[j])

\* C8: a directory skipped as incomplete is added to the counter of the frame
\* type its reason cites, and to no other.
C8_SkipCountedUnderMissingType ==
    [][(/\ Handles
        /\ ~Handling.status.raised
        /\ Handling.status.has_lights
        /\ ~Handling.status.is_complete) =>
           /\ Handling.status.reason = REASON_NO_DARKS =>
                  results' = [results EXCEPT !.skipped_no_darks = @ + 1]
           /\ Handling.status.reason = REASON_NO_FLATS =>
                  results' = [results EXCEPT !.skipped_no_flats = @ + 1]
           /\ Handling.status.reason = REASON_NO_BIAS =>
                  results' = [results EXCEPT !.skipped_no_bias = @ + 1]
           /\ Handling.status.reason \in {REASON_NO_DARKS, REASON_NO_FLATS, REASON_NO_BIAS}]_vars

\* a run that returned after skipping for each of the three missing types
C8_Witness ==
    /\ pc = "done"
    /\ results.skipped_no_darks > 0
    /\ results.skipped_no_flats > 0
    /\ results.skipped_no_bias > 0

Total(r) ==
    r.moved + r.skipped_no_lights + r.skipped_no_darks + r.skipped_no_flats
        + r.skipped_no_bias + r.errors

\* C10: every directory handled adds one to exactly one counter, so that at
\* the return the six counters add up to the number of directories found.
C10_CountersAddUp ==
    /\ pc = "loop" => Total(results) = idx - 1
    /\ pc = "done" => Total(results) = Len(image_dirs)

\* a run that returned after a move, a skip for no lights and a skip for a
\* missing bias
C10_Witness ==
    /\ pc = "done"
    /\ Len(image_dirs) >= 3
    /\ results.moved > 0
    /\ results.skipped_no_lights > 0
    /\ results.skipped_no_bias > 0

====
